---- MODULE Spec2Model ----
(***************************************************************************)
(* Model of src/lime/our_lime.py: ImageObject, Explainer (the LIME         *)
(* explanation pipeline), SegmentationMethod and KernelMethod.             *)
(*                                                                         *)
(* Arrays live on a heap of addresses so that copies and aliases are       *)
(* distinguishable.  An image is flattened to NPix pixels of one integer   *)
(* channel (an integer dtype: a mean stored into it is truncated).  Python *)
(* None is the empty tuple, an optional value v is the 1-tuple <<v>>.      *)
(* Masks are 0-indexed as in numpy; pixels and samples are 1-indexed.      *)
(***************************************************************************)
EXTENDS Integers, Sequences, FiniteSets, TLC

VARIABLES heap, image, training, segmentation_method, kernel_method, ret,
          original_at_init, masked_policy

vars == <<heap, image, training, segmentation_method, kernel_method, ret,
          original_at_init, masked_policy>>

\* ---------------------------------------------------------------- bounds
NPix == 2
MaxSamples == 2
NumClasses == 2

None == <<>>
Pixels == 1..NPix
\* the caller's images: the pixel ramps <<v+1, v+2, ...>>
Images == {[p \in Pixels |-> v + p] : v \in {0, 3}}
\* the identifiers a segmentation function may use: neither contiguous nor
\* necessarily starting at 0
Ids == {0, 2}
Grids == [Pixels -> Ids]
MaskValues == {None, <<0>>}
Classes == 0..(NumClasses - 1)
ProbVecs == [Classes -> 1..2]
Addr == 0..(MaxSamples + 2)
Bits == {0, 1}

\* ------------------------------------------------------- numpy helpers
RECURSIVE SumOver(_, _)
SumOver(f, S) ==
    IF S = {} THEN 0
    ELSE LET x == CHOOSE y \in S : TRUE IN f[x] + SumOver(f, S \ {x})

\* np.unique(superpixels): the distinct identifiers of the grid
np_unique(superpixels) == {superpixels[p] : p \in DOMAIN superpixels}

\* An array copy that shares its buffer with the source (a missing .copy())
np_copy_alias(h, a) == a

\* ndarray.copy(): the address of the fresh array (the lowest free one)
np_copy(h, a) ==
    CHOOSE b \in Addr : h[b] = None /\ \A c \in Addr : h[c] = None => b <= c

\* the heap once the array at address a has been copied to address b
Copied(h, a, b) == [h EXCEPT ![b] = h[a]]

\* Arrays no longer referenced are released
Collect(h, roots) == [a \in Addr |-> IF a \in roots THEN h[a] ELSE None]

\* np.mean(img[superpixels == x], axis=0) stored into an integer array
SuperpixelMean(img, superpixels, x) ==
    LET sel == {p \in Pixels : superpixels[p] = x}
    IN  SumOver(img, sel) \div Cardinality(sel)

\* ------------------------------------------------- strategy objects
\* A constructor argument `method`: a string name or a callable
Str(name) == [kind |-> "str", name |-> name]
Callable(name) == [kind |-> "callable", name |-> name]
isinstance_str(method) == method.kind = "str"

SegmentationNames == {"quickshift", "felzenszwalb", "slic"}
KernelNames == {"exponential"}

\* SegmentationMethod.__init__ without the isinstance(method, str) branch
SegmentationMethod_init_unchecked(method, method_args) ==
    [raised |-> FALSE, error |-> "",
     self |-> [method |-> method, method_args |-> method_args,
               fn |-> IF method \in {Str(n) : n \in SegmentationNames}
                      THEN Callable(method.name) ELSE method]]

\* SegmentationMethod.__init__: the constructed object, or the error raised
SegmentationMethod_init(method, method_args) ==
    IF method = Str("quickshift")
    THEN [raised |-> FALSE, error |-> "",
          self |-> [method |-> method, method_args |-> method_args,
                    fn |-> Callable("quickshift")]]
    ELSE IF method = Str("felzenszwalb")
    THEN [raised |-> FALSE, error |-> "",
          self |-> [method |-> method, method_args |-> method_args,
                    fn |-> Callable("felzenszwalb")]]
    ELSE IF method = Str("slic")
    THEN [raised |-> FALSE, error |-> "",
          self |-> [method |-> method, method_args |-> method_args,
                    fn |-> Callable("slic")]]
    ELSE IF isinstance_str(method)
    THEN [raised |-> TRUE, error |-> "KeyError", self |-> None]
    ELSE [raised |-> FALSE, error |-> "",
          self |-> [method |-> method, method_args |-> method_args,
                    fn |-> method]]

\* SegmentationMethod.__call__: self.segmentation_method(img, **method_args);
\* grid is what the segmentation function computes for the image
SegmentationMethod_call(self, grid) ==
    IF self.fn.kind # "callable"
    THEN [raised |-> TRUE, error |-> "TypeError", value |-> None]
    ELSE [raised |-> FALSE, error |-> "", value |-> grid]

\* KernelMethod.__init__
KernelMethod_init(method, method_args) ==
    IF method = Str("exponential")
    THEN [raised |-> FALSE, error |-> "",
          self |-> [method |-> method, method_args |-> method_args,
                    fn |-> Callable("exponential")]]
    ELSE IF isinstance_str(method)
    THEN [raised |-> TRUE, error |-> "KeyError", self |-> None]
    ELSE [raised |-> FALSE, error |-> "",
          self |-> [method |-> method, method_args |-> method_args,
                    fn |-> method]]

\* KernelMethod.__call__: self.kernel_method(distances, **method_args).
\* The built-in lambda takes (distances, kernel_width); a weight is kept
\* symbolically as the kernel applied to its distance.
KernelMethod_call(self, distances) ==
    IF self.fn.kind # "callable"
    THEN [raised |-> TRUE, error |-> "TypeError", value |-> None]
    ELSE IF self.fn = Callable("exponential")
            /\ self.method_args # {"kernel_width"}
    THEN [raised |-> TRUE, error |-> "TypeError", value |-> None]
    ELSE [raised |-> FALSE, error |-> "",
          value |-> [i \in DOMAIN distances |->
                        [kernel |-> self.fn.name, distance |-> distances[i]]]]

\* ------------------------------------------------------ Explainer methods
\* Explainer.segment_image(self, image): its parameters besides self
segment_image_params == 1
\* explain_image calls self.segment_image(image, num_samples)
explain_segment_args == 2

\* Explainer.segment_image: image.superpixels = segmentation_method(image)
segment_image(seg, im, grid) ==
    LET r == SegmentationMethod_call(seg, grid)
    IN  [raised |-> r.raised, error |-> r.error,
         image |-> IF r.raised THEN im ELSE [im EXCEPT !.superpixels = r.value]]

\* The pixels mask_image writes into the copy
MaskedPixels(img, superpixels, mask_value) ==
    IF mask_value = None
    THEN [p \in Pixels |-> SuperpixelMean(img, superpixels, superpixels[p])]
    ELSE [p \in Pixels |-> mask_value[1]]

\* Explainer.mask_image: builds image.masked_image from a copy of the original
mask_image(h, im, mask_value) ==
    LET a  == im.original_image
        b  == np_copy(h, a)
        h1 == Copied(h, a, b)
        h2 == [h1 EXCEPT ![b] = MaskedPixels(h1[a], im.superpixels, mask_value)]
    IN  [heap |-> h2, image |-> [im EXCEPT !.masked_image = <<b>>]]

\* num_superpixels as the largest identifier plus one
num_superpixels_by_max(im) ==
    1 + CHOOSE m \in np_unique(im.superpixels) :
            \A x \in np_unique(im.superpixels) : x <= m

\* num_superpixels = np.unique(image.superpixels).size
num_superpixels(im) == Cardinality(np_unique(im.superpixels))

\* The arrays np.random.randint(2, size=(num_samples, num_superpixels)) can be
random_randint(num_samples, n) == [1..num_samples -> [0..(n - 1) -> Bits]]

\* np.where(sample == 1)[0]: the indices of the bits that are 1
turned_on_superpixels(sample) == {i \in DOMAIN sample : sample[i] = 1}

\* mask[image.superpixels == superpixel] = True for each turned-on index
SampleMask(superpixels, sample) ==
    {p \in Pixels : superpixels[p] \in turned_on_superpixels(sample)}

\* The loop of sample_superpixels over the samples i..Len(samples)
RECURSIVE SampleLoop(_, _, _, _, _)
SampleLoop(h, im, samples, i, acc) ==
    IF i > Len(samples) THEN [heap |-> h, sampled_images |-> acc]
    ELSE LET a    == im.original_image
             b    == np_copy(h, a)
             h1   == Copied(h, a, b)
             mask == SampleMask(im.superpixels, samples[i])
             base == h1[im.masked_image[1]]
             h2   == [h1 EXCEPT ![b] =
                         [p \in Pixels |-> IF p \in mask THEN base[p] ELSE h1[b][p]]]
         IN  SampleLoop(h2, im, samples, i + 1, Append(acc, b))

\* Explainer.sample_superpixels, for the drawn array superpixel_samples
sample_superpixels(h, im, superpixel_samples) ==
    LET r == SampleLoop(h, im, superpixel_samples, 1, <<>>)
    IN  [heap |-> r.heap, superpixel_samples |-> superpixel_samples,
         sampled_images |-> r.sampled_images]

\* What can go wrong in a collaborator during a call
Faults == {"none", "scorer", "regressor"}

\* Explainer.map_blaxbox_io: classifier.eval(), then one score per image.
\* out is the classifier's softmax vector; with fault "scorer" the classifier
\* (or the preprocessing) raises on the first image it is given.
map_blaxbox_io(n_images, out, fault) ==
    IF fault = "scorer" /\ n_images > 0
    THEN [training |-> FALSE, raised |-> TRUE, error |-> "RuntimeError",
          value |-> None]
    ELSE [training |-> FALSE, raised |-> FALSE, error |-> "",
          value |-> [i \in 1..n_images |-> out]]

\* get_distances if pairwise_distances accepted an empty array
get_distances_no_check(superpixel_samples, n) ==
    [raised |-> FALSE, error |-> "",
     value |-> [i \in DOMAIN superpixel_samples |->
                  <<Cardinality(turned_on_superpixels(superpixel_samples[i])), n>>]]

\* Explainer.get_distances: cosine distance of each sample to the all-ones
\* row, 1 - sqrt(k / n) for k ones among n, kept as the pair <<k, n>>.
\* pairwise_distances rejects an array of 0 samples.
get_distances(superpixel_samples, n) ==
    IF Len(superpixel_samples) = 0
    THEN [raised |-> TRUE, error |-> "ValueError", value |-> None]
    ELSE [raised |-> FALSE, error |-> "",
          value |-> [i \in DOMAIN superpixel_samples |->
                  <<Cardinality(turned_on_superpixels(superpixel_samples[i])), n>>]]

\* Explainer.weigh_samples
weigh_samples(kern, distances) == KernelMethod_call(kern, distances)

\* Explainer.fit_LLR: Ridge() unless a regressor is given, then model.fit.
\* Ridge.fit rejects 0 samples; a given regressor fails when fault says so.
\* The fitted model is kept by the shape of what it was fitted on.
fit_LLR(samples, n, weights, labels, regressor, fault) ==
    IF regressor = None /\ Len(samples) = 0
    THEN [raised |-> TRUE, error |-> "ValueError", value |-> None]
    ELSE IF regressor # None /\ fault = "regressor"
    THEN [raised |-> TRUE, error |-> "RuntimeError", value |-> None]
    ELSE [raised |-> FALSE, error |-> "",
          value |-> [regressor |-> IF regressor = None THEN "Ridge" ELSE regressor[1],
                     n_samples |-> Len(samples), n_features |-> n,
                     targets |-> IF Len(labels) = 0 THEN {} ELSE DOMAIN labels[1]]]

\* ------------------------------------------------- target-class selection
Perms(S) == {q \in [1..Cardinality(S) -> S] : \A i, j \in DOMAIN q : i # j => q[i] # q[j]}

\* np.argsort(v): ascending by value; the default sort is not stable, so the
\* order of equal values is any
np_argsort(v) ==
    {q \in Perms(DOMAIN v) : \A i, j \in DOMAIN q : i < j => v[q[i]] <= v[q[j]]}

\* a[-k:] for k >= 0
tail_slice(a, k) ==
    IF k = 0 \/ k >= Len(a) THEN a ELSE SubSeq(a, Len(a) - k + 1, Len(a))

\* a[:k], the slice from the wrong end
head_slice(a, k) == IF k >= Len(a) THEN a ELSE SubSeq(a, 1, k)

np_flip(a) == [i \in 1..Len(a) |-> a[Len(a) + 1 - i]]

\* np.arange(n)
np_arange(n) == [i \in 1..n |-> i - 1]

\* labels taken from the low end of the argsort
select_labels_lowest(order, top_labels) == np_flip(head_slice(order, top_labels))

\* labels = np.flip(np.argsort(original_labels[0])[-top_labels:])
select_labels(order, top_labels) == np_flip(tail_slice(order, top_labels))

\* ---------------------------------------------------------- explain_image
\* The record of the last call: its arguments, outcome and observable locals
RetInit ==
    [op |-> "ImageObject", raised |-> FALSE, error |-> "",
     num_samples |-> 0, top_labels |-> None, mask_value |-> None,
     regressor |-> None, fault |-> "none", trace |-> <<>>,
     superpixel_samples |-> <<>>, sampled_images |-> <<>>,
     sample_labels |-> None, original_labels |-> None, labels |-> None,
     LLR_model |-> None, training_before |-> FALSE, baseline_policy |-> None,
     was_uninitialized |-> FALSE, method |-> None, value |-> None]

Frame(h, im, tr, pol) ==
    [heap |-> h, image |-> im, training |-> tr, masked_policy |-> pol,
     raised |-> FALSE, error |-> "", trace |-> <<>>,
     superpixel_samples |-> <<>>, sampled_images |-> <<>>,
     distances |-> None, sample_weights |-> None, sample_labels |-> None,
     original_labels |-> None, labels |-> None, LLR_model |-> None,
     baseline_policy |-> None]

Raise(f, error) == [f EXCEPT !.raised = TRUE, !.error = error]
Reach(f, stage) == [f EXCEPT !.trace = Append(@, stage)]

\* lines 228-229: if image.superpixels is None: self.segment_image(image, num_samples)
ExplainSegment(f, seg, grid) ==
    IF f.image.superpixels # None THEN Reach(f, "Segmented")
    ELSE IF explain_segment_args # segment_image_params THEN Raise(f, "TypeError")
    ELSE LET r == segment_image(seg, f.image, grid)
         IN  IF r.raised THEN Raise(f, r.error)
             ELSE Reach([f EXCEPT !.image = r.image], "Segmented")

\* lines 230-231: if image.masked_image is None: self.mask_image(image, mask_value)
ExplainBaseline(f, mask_value) ==
    IF f.raised THEN f
    ELSE IF f.image.masked_image = None
    THEN LET r == mask_image(f.heap, f.image, mask_value)
         IN  Reach([f EXCEPT !.heap = r.heap, !.image = r.image,
                             !.masked_policy = <<mask_value>>], "Baselined")
    ELSE Reach(f, "Baselined")

\* line 233
ExplainSample(f, draws) ==
    IF f.raised THEN f
    ELSE LET r == sample_superpixels(f.heap, f.image, draws)
         IN  Reach([f EXCEPT !.heap = r.heap,
                             !.superpixel_samples = r.superpixel_samples,
                             !.sampled_images = r.sampled_images,
                             !.baseline_policy = f.masked_policy], "Sampled")

\* lines 234-235
ExplainWeigh(f, kern) ==
    IF f.raised THEN f
    ELSE LET d == get_distances(f.superpixel_samples, num_superpixels(f.image))
         IN  IF d.raised THEN Raise(f, d.error)
             ELSE LET w == weigh_samples(kern, d.value)
                  IN  IF w.raised THEN Raise([f EXCEPT !.distances = d.value], w.error)
                      ELSE Reach([f EXCEPT !.distances = d.value,
                                           !.sample_weights = w.value], "Weighted")

\* line 236
ExplainScore(f, out, fault) ==
    IF f.raised THEN f
    ELSE LET r == map_blaxbox_io(Len(f.sampled_images), out, fault)
             g == [f EXCEPT !.training = r.training]
         IN  IF r.raised THEN Raise(g, r.error)
             ELSE Reach([g EXCEPT !.sample_labels = r.value], "Scored")

\* lines 240-244
ExplainSelect(f, top_labels, out, order, fault) ==
    IF f.raised THEN f
    ELSE IF top_labels = None
    THEN IF Len(f.sample_labels) = 0 THEN Raise(f, "IndexError")
         ELSE [f EXCEPT !.labels = np_arange(Cardinality(DOMAIN f.sample_labels[1]))]
    ELSE LET r == map_blaxbox_io(1, out, fault)
             g == [f EXCEPT !.training = r.training]
         IN  IF r.raised THEN Raise(g, r.error)
             ELSE [g EXCEPT !.original_labels = r.value,
                            !.labels = select_labels(order, top_labels[1])]

\* line 246
ExplainFit(f, regressor, fault) ==
    IF f.raised THEN f
    ELSE LET r == fit_LLR(f.superpixel_samples, num_superpixels(f.image),
                          f.sample_weights, f.sample_labels, regressor, fault)
         IN  IF r.raised THEN Raise(f, r.error)
             ELSE Reach(Reach([f EXCEPT !.LLR_model = r.value], "Fitted"), "Explained")

\* Explainer.explain_image, lines 228-250, as the frame it ends in
explain_image(f, seg, kern, top_labels, mask_value, regressor, grid, draws, out, order, fault) ==
    LET segmented == {ExplainSegment(f, seg, grid)}
        baselined == {ExplainBaseline(s, mask_value) : s \in segmented}
        sampled   == {ExplainSample(s, draws) : s \in baselined}
        weighted  == {ExplainWeigh(s, kern) : s \in sampled}
        scored    == {ExplainScore(s, out, fault) : s \in weighted}
        selected  == {ExplainSelect(s, top_labels, out, order, fault) : s \in scored}
        fitted    == {ExplainFit(s, regressor, fault) : s \in selected}
    IN  CHOOSE s \in fitted : TRUE

\* ------------------------------------------------------------ the program
TopLabels == {None} \cup {<<k>> : k \in 0..(NumClasses + 1)}
Regressors == {None, <<"custom">>}

Roots(im, images) ==
    {im.original_image} \cup {im.masked_image[i] : i \in DOMAIN im.masked_image}
        \cup {images[i] : i \in DOMAIN images}

\* The heap once the arrays of the previous call's result are dropped
Live == Collect(heap, Roots(image, <<>>))

\* What the segmentation function returns for the image: any grid, and the
\* same grid whenever it is run on the same image again
SegmentationResults == IF image.superpixels = None THEN Grids ELSE {image.superpixels}

\* The draw of an explain_image call: rows alternately all ones and all
\* zeros (SampleSuperpixels ranges over every draw)
ExplainDraw(num_samples, n) == [i \in 1..num_samples |-> [b \in 0..(n - 1) |-> i % 2]]

\* a classifier output used where the scores do not matter
UniformOut == [c \in Classes |-> 1]

\* ImageObject(original_image) on the caller's array, an Explainer built from
\* SegmentationMethod("quickshift") and KernelMethod("exponential",
\* kernel_width=...), a classifier in either mode
Init ==
    /\ \E data \in Images : /\ heap = [a \in Addr |-> IF a = 0 THEN data ELSE None]
                            /\ original_at_init = data
    /\ image = [original_image |-> 0, masked_image |-> None, superpixels |-> None]
    /\ training \in BOOLEAN
    /\ segmentation_method = SegmentationMethod_init(Str("quickshift"), {}).self
    /\ kernel_method = KernelMethod_init(Str("exponential"), {"kernel_width"}).self
    /\ ret = RetInit
    /\ masked_policy = None

\* One image, and a classifier as torch constructs it (in training mode)
InitOne == Init /\ original_at_init = [p \in Pixels |-> p] /\ training

SegmentImage ==
    \E grid \in SegmentationResults :
        LET r == segment_image(segmentation_method, image, grid)
        IN  /\ image' = r.image
            /\ ret' = [RetInit EXCEPT !.op = "segment_image", !.raised = r.raised,
                                      !.error = r.error]
            /\ heap' = Live
            /\ UNCHANGED <<training, segmentation_method, kernel_method,
                           original_at_init, masked_policy>>

MaskImage ==
    /\ image.superpixels # None
    /\ \E mask_value \in MaskValues :
        LET r == mask_image(Live, image, mask_value)
        IN  /\ image' = r.image
            /\ heap' = Collect(r.heap, Roots(r.image, <<>>))
            /\ masked_policy' = <<mask_value>>
            /\ ret' = [RetInit EXCEPT !.op = "mask_image", !.mask_value = mask_value]
            /\ UNCHANGED <<training, segmentation_method, kernel_method,
                           original_at_init>>

SampleSuperpixels ==
    /\ image.superpixels # None
    /\ image.masked_image # None
    /\ \E num_samples \in 0..MaxSamples :
       \E draws \in random_randint(num_samples, num_superpixels(image)) :
        LET r == sample_superpixels(Live, image, draws)
        IN  /\ heap' = r.heap
            /\ ret' = [RetInit EXCEPT !.op = "sample_superpixels",
                                      !.num_samples = num_samples,
                                      !.superpixel_samples = r.superpixel_samples,
                                      !.sampled_images = r.sampled_images,
                                      !.baseline_policy = masked_policy]
            /\ UNCHANGED <<image, training, segmentation_method, kernel_method,
                           original_at_init, masked_policy>>

\* map_blaxbox_io on the original image or on the images just sampled
MapBlaxboxIo ==
    \E images \in {<<image.original_image>>, ret.sampled_images} :
    \E out \in ProbVecs : \E fault \in {"none", "scorer"} :
        LET r == map_blaxbox_io(Len(images), out, fault)
        IN  /\ training' = r.training
            /\ ret' = [RetInit EXCEPT !.op = "map_blaxbox_io", !.raised = r.raised,
                                      !.error = r.error, !.fault = fault,
                                      !.num_samples = Len(images),
                                      !.sample_labels = r.value,
                                      !.training_before = training]
            /\ heap' = Live
            /\ UNCHANGED <<image, segmentation_method, kernel_method,
                           original_at_init, masked_policy>>

\* fit_LLR on a batch of num_samples all-ones rows
FitLLR ==
    /\ image.superpixels # None
    /\ \E num_samples \in 0..MaxSamples : \E regressor \in Regressors :
       \E fault \in {"none", "regressor"} :
        LET n       == num_superpixels(image)
            samples == [i \in 1..num_samples |-> [b \in 0..(n - 1) |-> 1]]
            labels  == [i \in 1..num_samples |-> UniformOut]
            r       == fit_LLR(samples, n, None, labels, regressor, fault)
        IN  /\ ret' = [RetInit EXCEPT !.op = "fit_LLR", !.raised = r.raised,
                                      !.error = r.error, !.fault = fault,
                                      !.num_samples = num_samples,
                                      !.regressor = regressor,
                                      !.LLR_model = r.value]
            /\ heap' = Live
            /\ UNCHANGED <<image, training, segmentation_method, kernel_method,
                           original_at_init, masked_policy>>

\* explain_image with its arguments and its collaborators' behaviour drawn
\* from the given sets
ExplainImageOver(NumSamples, Tops, MaskVals, Regs, Flts, Outs) ==
    \E num_samples \in NumSamples : \E top_labels \in Tops :
    \E mask_value \in MaskVals : \E regressor \in Regs :
    \E fault \in Flts : \E out \in Outs :
    \E order \in IF top_labels = None THEN {<<>>} ELSE np_argsort(out) :
    \E grid \in SegmentationResults :
    \E draws \in IF image.superpixels = None THEN {<<>>}
                 ELSE {ExplainDraw(num_samples, num_superpixels(image))} :
    \E f \in {explain_image(Frame(Live, image, training, masked_policy),
                             segmentation_method, kernel_method, top_labels,
                             mask_value, regressor, grid, draws, out, order, fault)} :
            /\ image' = f.image
            /\ heap' = Collect(f.heap, Roots(f.image, <<>>))
            /\ training' = f.training
            /\ masked_policy' = f.masked_policy
            /\ ret' = [RetInit EXCEPT !.op = "explain_image", !.raised = f.raised,
                                      !.error = f.error, !.fault = fault,
                                      !.num_samples = num_samples,
                                      !.top_labels = top_labels,
                                      !.mask_value = mask_value,
                                      !.regressor = regressor,
                                      !.trace = f.trace,
                                      !.original_labels = f.original_labels,
                                      !.labels = f.labels,
                                      !.LLR_model = f.LLR_model,
                                      !.training_before = training,
                                      !.baseline_policy = f.baseline_policy,
                                      !.was_uninitialized =
                                          (image.superpixels = None
                                           /\ image.masked_image = None)]
            /\ UNCHANGED <<segmentation_method, kernel_method, original_at_init>>

\* explain_image(image, num_samples, mask_value=...)
ExplainImage ==
    ExplainImageOver(0..MaxSamples, {None}, MaskValues, {None}, {"none"},
                     {UniformOut})

\* explain_image(image, 1, top_labels=...), every classifier output
ExplainImageTopLabels ==
    ExplainImageOver({1}, TopLabels, {None}, {None}, {"none"}, ProbVecs)

\* explain_image(image, num_samples, top_labels, regressor=...), with
\* collaborators that may fail
ExplainImageRegressor ==
    ExplainImageOver(0..MaxSamples, {None, <<1>>}, {None}, Regressors, Faults,
                     {UniformOut})

\* The pipeline on pixels: segmentation, baseline, sampling, scoring, explain
Next ==
    \/ SegmentImage
    \/ MaskImage
    \/ SampleSuperpixels
    \/ MapBlaxboxIo
    \/ ExplainImage

Spec == Init /\ [][Next]_vars

\* Target-class selection
NextSelect ==
    \/ SegmentImage
    \/ ExplainImageTopLabels

SpecSelect == InitOne /\ [][NextSelect]_vars

\* The surrogate fit and the failures that reach it
NextFit ==
    \/ SegmentImage
    \/ FitLLR
    \/ ExplainImageRegressor

SpecFit == InitOne /\ [][NextFit]_vars

\* ----------------------------------------------- constructing strategies
\* The method arguments a caller passes: names, recognized or not, and
\* functions of the caller's own
Methods ==
    {Str(n) : n \in SegmentationNames \cup KernelNames \cup {"watershed", "gaussian"}}
        \cup {Callable("custom_a"), Callable("custom_b")}
MethodArgs == SUBSET {"kernel_width"}

\* Before any strategy object is constructed
InitStrategy ==
    /\ heap = [a \in Addr |-> IF a = 0 THEN [p \in Pixels |-> p] ELSE None]
    /\ original_at_init = [p \in Pixels |-> p]
    /\ image = [original_image |-> 0, masked_image |-> None, superpixels |-> None]
    /\ training = TRUE
    /\ segmentation_method = None
    /\ kernel_method = None
    /\ ret = RetInit
    /\ masked_policy = None

\* s = SegmentationMethod(method): s is bound only if the constructor returns
NewSegmentationMethod ==
    \E method \in Methods :
    \E r \in {SegmentationMethod_init(method, {})} :
        /\ segmentation_method' = IF r.raised THEN segmentation_method ELSE r.self
        /\ ret' = [RetInit EXCEPT !.op = "SegmentationMethod", !.raised = r.raised,
                                  !.error = r.error, !.method = method]
        /\ UNCHANGED <<heap, image, training, kernel_method, original_at_init,
                       masked_policy>>

\* k = KernelMethod(method, **method_args)
NewKernelMethod ==
    \E method \in Methods : \E method_args \in MethodArgs :
    \E r \in {KernelMethod_init(method, method_args)} :
        /\ kernel_method' = IF r.raised THEN kernel_method ELSE r.self
        /\ ret' = [RetInit EXCEPT !.op = "KernelMethod", !.raised = r.raised,
                                  !.error = r.error, !.method = method]
        /\ UNCHANGED <<heap, image, training, segmentation_method,
                       original_at_init, masked_policy>>

\* s(img)
CallSegmentationMethod ==
    /\ segmentation_method # None
    /\ \E grid \in Grids :
       \E r \in {SegmentationMethod_call(segmentation_method, grid)} :
        /\ ret' = [RetInit EXCEPT !.op = "SegmentationMethod_call",
                                  !.raised = r.raised, !.error = r.error,
                                  !.method = segmentation_method.method,
                                  !.value = r.value]
        /\ UNCHANGED <<heap, image, training, segmentation_method, kernel_method,
                       original_at_init, masked_policy>>

\* k(distances), for the distances of one all-off and one all-on sample
CallKernelMethod ==
    /\ kernel_method # None
    /\ \E r \in {KernelMethod_call(kernel_method, << <<0, 1>>, <<1, 1>> >>)} :
        /\ ret' = [RetInit EXCEPT !.op = "KernelMethod_call",
                                  !.raised = r.raised, !.error = r.error,
                                  !.method = kernel_method.method,
                                  !.value = r.value]
        /\ UNCHANGED <<heap, image, training, segmentation_method, kernel_method,
                       original_at_init, masked_policy>>

NextStrategy ==
    \/ NewSegmentationMethod
    \/ NewKernelMethod
    \/ CallSegmentationMethod
    \/ CallKernelMethod

SpecStrategy == InitStrategy /\ [][NextStrategy]_vars

\* ------------------------------------------------------------ properties
Range(q) == {q[i] : i \in DOMAIN q}

\* the position of identifier x among the sorted distinct identifiers
SuperpixelIndex(superpixels, x) == Cardinality({y \in np_unique(superpixels) : y < x})

OriginalPixels == heap[image.original_image]
BaselinePixels == heap[image.masked_image[1]]

\* C1: every pixel of a perturbed image returned by sample_superpixels is the
\* original pixel when the mask bit of the pixel's super-pixel is 1 and the
\* baseline pixel when it is 0 (so all-ones gives the original image and
\* all-zeros the baseline), whatever identifiers the grid uses.
C1_MaterializeKeepsOnSuperpixels ==
    ret.op = "sample_superpixels" =>
        \A i \in DOMAIN ret.sampled_images : \A p \in Pixels :
            LET bit == ret.superpixel_samples[i][
                           SuperpixelIndex(image.superpixels, image.superpixels[p])]
            IN  heap[ret.sampled_images[i]][p] =
                    IF bit = 1 THEN OriginalPixels[p] ELSE BaselinePixels[p]

\* C2: explain_image on an image with no grid and no baseline, with
\* collaborators that do not fail and num_samples >= 1, returns after passing
\* Segmented, Baselined, Sampled, Scored, Weighted, Fitted, Explained in order.
C2_UninitializedRunsToExplained ==
    (ret.op = "explain_image" /\ ret.was_uninitialized /\ ret.num_samples >= 1
        /\ ret.fault = "none") =>
        /\ ~ret.raised
        /\ ret.trace = <<"Segmented", "Baselined", "Sampled", "Scored", "Weighted",
                         "Fitted", "Explained">>

\* C3: the baseline an explain_image call that returns has materialized its
\* perturbations from is the one built from that call's mask_value.
C3_BaselineFollowsMaskValue ==
    (ret.op = "explain_image" /\ ~ret.raised) =>
        /\ ret.baseline_policy = <<ret.mask_value>>
        /\ BaselinePixels = MaskedPixels(OriginalPixels, image.superpixels, ret.mask_value)

\* the reference vector and the number of classes of the last explain_image
RefProbs == ret.original_labels[1]
NumSelected(k) == IF k = 0 \/ k >= NumClasses THEN NumClasses ELSE k

\* C4 as stated: with top_labels = k (1 <= k <= C) the selection holds exactly
\* the k most probable classes, by descending probability, equal
\* probabilities by ascending class index; without top_labels all classes.
C4_TiesByAscendingIndex ==
    (ret.op = "explain_image" /\ ~ret.raised) =>
        IF ret.top_labels = None THEN ret.labels = np_arange(NumClasses)
        ELSE (ret.top_labels[1] \in 1..NumClasses) =>
             /\ Len(ret.labels) = ret.top_labels[1]
             /\ \A i, j \in DOMAIN ret.labels : i < j =>
                    \/ RefProbs[ret.labels[i]] > RefProbs[ret.labels[j]]
                    \/ /\ RefProbs[ret.labels[i]] = RefProbs[ret.labels[j]]
                       /\ ret.labels[i] < ret.labels[j]
             /\ \A c \in Classes \ Range(ret.labels) : \A l \in Range(ret.labels) :
                    \/ RefProbs[l] > RefProbs[c]
                    \/ RefProbs[l] = RefProbs[c] /\ l < c

\* C4 amended: without top_labels the selection is all class indices in
\* order; with top_labels = k >= 0 it holds k distinct classes (all C of them
\* when k = 0 or k >= C), none less probable than an unselected class, in
\* order of non-increasing probability; equal probabilities come in any order.
C4_SelectsTopByDescendingProbability ==
    (ret.op = "explain_image" /\ ~ret.raised) =>
        IF ret.top_labels = None THEN ret.labels = np_arange(NumClasses)
        ELSE /\ Len(ret.labels) = NumSelected(ret.top_labels[1])
             /\ Cardinality(Range(ret.labels)) = Len(ret.labels)
             /\ Range(ret.labels) \subseteq Classes
             /\ \A i, j \in DOMAIN ret.labels : i < j =>
                    RefProbs[ret.labels[i]] >= RefProbs[ret.labels[j]]
             /\ \A c \in Classes \ Range(ret.labels) : \A l \in Range(ret.labels) :
                    RefProbs[l] >= RefProbs[c]

\* C4 witness: one class asked for, two classes tied at the top, and the
\* selection is the one of higher index
C4_Witness ==
    /\ ret.op = "explain_image" /\ ~ret.raised
    /\ ret.top_labels = <<1>>
    /\ RefProbs[0] = RefProbs[1] /\ \A c \in Classes : RefProbs[c] <= RefProbs[0]
    /\ ret.labels = <<1>>

C6_ModeRestored ==
    ret.op = "map_blaxbox_io" => training = ret.training_before

\* C7: a constructor given an unrecognized name raises and leaves no object;
\* given a recognized name or a callable it returns an object holding a
\* resolved function, and calling an object never fails on an unresolved name.
C7_UnknownNameFailsAtConstruction ==
    /\ ret.op = "SegmentationMethod" =>
           (ret.raised <=> (isinstance_str(ret.method)
                            /\ ret.method.name \notin SegmentationNames))
    /\ ret.op = "KernelMethod" =>
           (ret.raised <=> (isinstance_str(ret.method)
                            /\ ret.method.name \notin KernelNames))
    /\ ret.op \in {"SegmentationMethod", "KernelMethod"} /\ ret.raised =>
           ret.error = "KeyError"
    /\ segmentation_method # None =>
           /\ segmentation_method.fn.kind = "callable"
           /\ isinstance_str(segmentation_method.method) =>
                  segmentation_method.method.name \in SegmentationNames
    /\ kernel_method # None =>
           /\ kernel_method.fn.kind = "callable"
           /\ isinstance_str(kernel_method.method) =>
                  kernel_method.method.name \in KernelNames
    /\ ret.op = "SegmentationMethod_call" => ~ret.raised
    /\ ret.op = "KernelMethod_call" /\ ret.raised =>
           /\ kernel_method.fn = Callable("exponential")
           /\ "kernel_width" \notin kernel_method.method_args

\* C7 witness: KernelMethod("quickshift") raised and no kernel object exists,
\* while a SegmentationMethod built from a recognized name does
C7_Witness ==
    /\ ret.op = "KernelMethod" /\ ret.raised /\ ret.method = Str("quickshift")
    /\ kernel_method = None
    /\ segmentation_method # None /\ segmentation_method.method = Str("slic")

\* C8: sample_superpixels returns num_samples masks and num_samples images,
\* the i-th image built from the i-th mask, each mask as long as the grid has
\* distinct identifiers.
C8_BatchShape ==
    ret.op = "sample_superpixels" =>
        /\ Len(ret.superpixel_samples) = ret.num_samples
        /\ Len(ret.sampled_images) = ret.num_samples
        /\ \A i \in DOMAIN ret.superpixel_samples :
               /\ DOMAIN ret.superpixel_samples[i] =
                      0..(Cardinality(np_unique(image.superpixels)) - 1)
               /\ heap[ret.sampled_images[i]] =
                      [p \in Pixels |->
                          IF p \in SampleMask(image.superpixels, ret.superpixel_samples[i])
                          THEN BaselinePixels[p] ELSE OriginalPixels[p]]

\* C8 witness: two different masks over a grid of identifiers {0, 2}, and
\* two different images
C8_Witness ==
    /\ ret.op = "sample_superpixels" /\ ret.num_samples = 2
    /\ np_unique(image.superpixels) = {0, 2}
    /\ ret.superpixel_samples[1] # ret.superpixel_samples[2]
    /\ heap[ret.sampled_images[1]] # heap[ret.sampled_images[2]]

\* C9: with top_labels given, the model explain_image returns is fitted on
\* exactly the selected classes.
C9_ModelOnSelectedClasses ==
    (ret.op = "explain_image" /\ ~ret.raised /\ ret.top_labels # None) =>
        ret.LLR_model.targets = Range(ret.labels)

\* C10: the caller's array holds the pixels it held at ImageObject
\* construction, and the baseline and the perturbed images are other arrays.
C10_OriginalUntouched ==
    /\ OriginalPixels = original_at_init
    /\ image.masked_image # None => image.masked_image[1] # image.original_image
    /\ \A i \in DOMAIN ret.sampled_images :
           ret.sampled_images[i] # image.original_image

\* C10 witness: after an explain_image that built the baseline and a
\* sample_superpixels, a perturbed image differs from the original
C10_Witness ==
    /\ ret.op = "sample_superpixels"
    /\ BaselinePixels # OriginalPixels
    /\ \E i \in DOMAIN ret.sampled_images : heap[ret.sampled_images[i]] # OriginalPixels
    /\ training = FALSE

====
